---- MODULE Spec2Model ----
(***************************************************************************)
(* PaperVista backend (src/backend/main.py): the model-fallback invoker    *)
(* generate_with_fallback and the two-phase handler generate_questions of  *)
(* POST /api/generate-questions, as a state machine whose steps are the    *)
(* handler's suspension points (generation call, backoff, retry sleep,     *)
(* pacing sleep).                                                          *)
(*                                                                         *)
(* Strings the code only copies (topics, question texts) are sequences of  *)
(* characters.  An error message is the sequence of the fragments it is    *)
(* made of; the code inspects messages only by substring tests for fixed   *)
(* keywords, so a message contains a keyword iff one of its fragments is   *)
(* that keyword.  A JSON value is a tagged record: [type |-> "array",      *)
(* items], [type |-> "object", obj] or [type |-> "string"].                *)
(***************************************************************************)
EXTENDS Integers, Sequences, FiniteSets

\* ------------------------------------------------------------------ bounds
\* Largest number of comma-separated topics in request.topicHeadings.
MaxTopics == 2
\* Longest outline array the model returns in Phase 1.
MaxOutlineLen == 6

\* --------------------------------------------------------------- constants
\* main.py:40-44
MODEL_FALLBACK_LIST == <<"gemini-2.5-flash", "gemini-2.5-flash-lite", "gemini-3-flash">>
\* main.py:335
max_retries == 3

\* ------------------------------------------------------- string operations
TopicLetter == <<"A", "B", "C", "D", "E", "F", "G", "H">>

\* The topicHeadings strings of the requests: "A", "A, B", "A, B, C", ...
RECURSIVE HeadingOf(_)
HeadingOf(n) ==
    IF n = 1 THEN <<TopicLetter[1]>>
    ELSE HeadingOf(n - 1) \o <<",", " ", TopicLetter[n]>>

\* str.split(','), main.py:240
RECURSIVE SplitComma(_)
SplitComma(s) ==
    IF \A i \in 1..Len(s) : s[i] # ","
    THEN <<s>>
    ELSE LET i == CHOOSE j \in 1..Len(s) :
                      s[j] = "," /\ \A k \in 1..(j - 1) : s[k] # ","
         IN <<SubSeq(s, 1, i - 1)>> \o SplitComma(SubSeq(s, i + 1, Len(s)))

\* str.strip(), main.py:240
RECURSIVE Strip(_)
Strip(s) ==
    IF s = <<>> THEN s
    ELSE IF s[1] = " " THEN Strip(Tail(s))
    ELSE IF s[Len(s)] = " " THEN Strip(SubSeq(s, 1, Len(s) - 1))
    ELSE s

\* [t.strip() for t in request.topicHeadings.split(',')], main.py:240
SplitTopics(topicHeadings) ==
    LET parts == SplitComma(topicHeadings)
    IN [i \in 1..Len(parts) |-> Strip(parts[i])]

\* ---------------------------------------------------------- error messages
\* str.lower() on one message fragment
LowerFragment(f) ==
    CASE f = "Quota" -> "quota"
      [] f = "Rate Limit" -> "rate limit"
      [] f = "Resource Exhausted" -> "resource exhausted"
      [] f = "API key" -> "api key"
      [] f = "Model" -> "model"
      [] f = "Unable to parse JSON" -> "unable to parse json"
      [] OTHER -> f

\* str(e).lower(), main.py:180 and main.py:405
Lower(msg) == [i \in 1..Len(msg) |-> LowerFragment(msg[i])]

\* keyword in message, main.py:185-193 and main.py:405-410
Contains(msg, keyword) == \E i \in 1..Len(msg) : msg[i] = keyword

NoError == [exc |-> "None", msg |-> <<>>]
Err(exc, msg) == [exc |-> exc, msg |-> msg]

\* Exception(f"Model {current_model} timed out after {GENERATION_TIMEOUT}s"), main.py:173
TimeoutFailure(current_model) ==
    Err("Exception", <<"Model", current_model, "timed out">>)

\* ValueError("Model returned empty or invalid response"), main.py:167
EmptyResponseError == Err("ValueError", <<"Model returned", "empty", "or", "invalid response">>)

\* The exceptions model.generate_content raises in the modelled runs.
UpstreamErrors ==
    { Err("Exception", m) : m \in { <<"429">>, <<"Quota">>, <<"Rate Limit">>,
                                    <<"Resource Exhausted">>, <<"API key">>, <<"API key", "quota">>,
                                    <<"not found">>, <<"boom">> } }

\* any(keyword in error_msg ...), main.py:185
IsRateLimit(e) ==
    LET error_msg == Lower(e.msg)
    IN \E k \in {"429", "quota", "rate limit", "resource exhausted"} : Contains(error_msg, k)

\* The branch of the except clause at main.py:185-199 an exception takes.
Classify(e) ==
    LET error_msg == Lower(e.msg)
    IN IF IsRateLimit(e) THEN "rate_limit"
       ELSE IF \E k \in {"not found", "invalid model", "model not available"} :
                   Contains(error_msg, k) THEN "unavailable"
       ELSE IF Contains(error_msg, "empty") \/ Contains(error_msg, "invalid response")
            THEN "invalid_response"
       ELSE "unknown"

\* ------------------------------------------------------------ JSON values
JArray(items) == [type |-> "array", items |-> items]
JObject(obj) == [type |-> "object", obj |-> obj]
JString == [type |-> "string"]

\* A topic string the model words itself (it is none of the request's topics).
ModelTopic == <<"M">>

\* The outline entry {"questionNumber": n, "topic": t}
Entry(n, t) == JObject([questionNumber |-> n, topic |-> t])

\* The outline array the prompt asks for, with k entries numbered 1..k.
Canon(k) == [i \in 1..k |-> Entry(i, ModelTopic)]

\* Outline arrays the model returns in Phase 1: well-numbered arrays of every
\* length up to MaxOutlineLen, and arrays with entries the prompt did not ask for.
OutlineArrays ==
    { Canon(k) : k \in 0..MaxOutlineLen }
    \cup { <<Entry(2, ModelTopic), Entry(1, ModelTopic)>>,          \* numbers swapped
           <<JObject([questionNumber |-> 1])>>,                     \* no topic
           <<Entry(1, ModelTopic), JObject([topic |-> ModelTopic])>>, \* no questionNumber
           <<JString>> }                                            \* not an object

\* Parts of a question as the prompt asks for them (main.py:316-318).
ModelParts ==
    << [label |-> "a", text |-> <<"model text a">>, marks |-> 4],
       [label |-> "b", text |-> <<"model text b">>, marks |-> 4],
       [label |-> "c", text |-> <<"model text c">>, marks |-> 6,
        hasOR |-> TRUE, orText |-> <<"model text or">>] >>

\* Parts the model may return instead: two parts, the last one without an OR.
ShortParts ==
    << [label |-> "a", text |-> <<"model text a">>, marks |-> 4],
       [label |-> "c", text |-> <<"model text c">>, marks |-> 6] >>

\* Question objects the model returns in Phase 2.
QuestionObjects ==
    { JObject([questionNumber |-> 9, parts |-> ModelParts]),
      JObject([parts |-> ModelParts]),
      JObject([questionNumber |-> 1, parts |-> ShortParts]) }

\* The text of a model response, as the code reads it: whether it is empty
\* or shorter than 10 characters once stripped (main.py:166), and the JSON
\* value clean_and_parse_json recovers from it, if any (main.py:81-138).
Text(short, json) == [short |-> short, json |-> json]
NoJson == [type |-> "none"]
ShortText == Text(TRUE, NoJson)
Unparseable == Text(FALSE, NoJson)

\* Response texts of the outline call (main.py:273).
OutlineTexts ==
    { ShortText, Unparseable }
    \cup { Text(FALSE, JArray(a)) : a \in OutlineArrays }
    \cup { Text(FALSE, Entry(1, ModelTopic)), Text(FALSE, JString) }

\* Response texts of the content calls (main.py:339).
ContentTexts ==
    { ShortText, Unparseable }
    \cup { Text(FALSE, q) : q \in QuestionObjects }
    \cup { Text(FALSE, Entry(1, ModelTopic)), Text(FALSE, JArray(Canon(1))) }

\* clean_and_parse_json, main.py:81-138: the parsed value, or the ValueError
\* of main.py:138.
ParseError == Err("ValueError", <<"Unable to parse JSON">>)
clean_and_parse_json(text) ==
    IF text.json = NoJson
    THEN [ok |-> FALSE, error |-> ParseError]
    ELSE [ok |-> TRUE, value |-> text.json]

\* ------------------------------------------- the sanitizer, step by step
\* clean_and_parse_json on the characters of a response.  A text is a
\* sequence of characters; the three backquotes of a fence (the element
\* Fence) and the word json are one element each.
Fence == "fence"
Whitespace == {" ", "\n"}
Digits == {"1"}
Quote == "\""

\* JSON values as json.loads builds them: list, dict (members in insertion
\* order), str and int.
JText(chars) == [type |-> "string", chars |-> chars]
JNumber(digits) == [type |-> "number", digits |-> digits]
JDict(members) == [type |-> "object", members |-> members]

\* The first position from i on that holds no whitespace (\s*).
RECURSIVE SkipWs(_, _)
SkipWs(s, i) == IF i <= Len(s) /\ s[i] \in Whitespace THEN SkipWs(s, i + 1) ELSE i

\* The first position from i on that holds an element of set, or Len(s) + 1.
RECURSIVE SkipTo(_, _, _)
SkipTo(s, i, set) == IF i <= Len(s) /\ s[i] \notin set THEN SkipTo(s, i + 1, set) ELSE i

\* re.sub(mark + r'\s*', '', s) from position i on, main.py:90-91
RECURSIVE SubMarkWs(_, _, _)
SubMarkWs(s, mark, i) ==
    IF i > Len(s) THEN <<>>
    ELSE IF i + Len(mark) - 1 <= Len(s) /\ SubSeq(s, i, i + Len(mark) - 1) = mark
    THEN SubMarkWs(s, mark, SkipWs(s, i + Len(mark)))
    ELSE <<s[i]>> \o SubMarkWs(s, mark, i + 1)

\* Step 1, main.py:89-91
RemoveFences(s) == SubMarkWs(SubMarkWs(s, <<Fence, "json">>, 1), <<Fence>>, 1)

\* Step 2, main.py:93-96
FromFirstOpen(s) ==
    LET i == SkipTo(s, 1, {"[", "{"}) IN
    IF i > Len(s) THEN s ELSE SubSeq(s, i, Len(s))

\* Step 3, main.py:98-101: up to the last } or ]
ToLastClose(s) ==
    LET closes == { i \in 1..Len(s) : s[i] \in {"}", "]"} } IN
    IF closes = {} THEN s
    ELSE SubSeq(s, 1, CHOOSE i \in closes : \A j \in closes : j <= i)

\* Step 4, main.py:103-104: re.sub(r',(\s*[}\]])', r'\1', s) from position i on
RECURSIVE RemoveTrailingCommas(_, _)
RemoveTrailingCommas(s, i) ==
    IF i > Len(s) THEN <<>>
    ELSE LET j == SkipWs(s, i + 1) IN
         IF s[i] = "," /\ j <= Len(s) /\ s[j] \in {"}", "]"}
         THEN RemoveTrailingCommas(s, i + 1)
         ELSE <<s[i]>> \o RemoveTrailingCommas(s, i + 1)

\* re.sub(r'//.*?\n', '\n', s) from position i on, main.py:107
RECURSIVE RemoveLineComments(_, _)
RemoveLineComments(s, i) ==
    IF i > Len(s) THEN <<>>
    ELSE LET j == SkipTo(s, i + 2, {"\n"}) IN
         IF i + 1 <= Len(s) /\ s[i] = "/" /\ s[i + 1] = "/" /\ j <= Len(s)
         THEN <<"\n">> \o RemoveLineComments(s, j + 1)
         ELSE <<s[i]>> \o RemoveLineComments(s, i + 1)

\* The first position from i on where */ begins, or 0.
RECURSIVE CommentEnd(_, _)
CommentEnd(s, i) ==
    IF i + 1 > Len(s) THEN 0
    ELSE IF s[i] = "*" /\ s[i + 1] = "/" THEN i
    ELSE CommentEnd(s, i + 1)

\* re.sub(r'/\*.*?\*/', '', s, flags=re.DOTALL) from position i on, main.py:108
RECURSIVE RemoveBlockComments(_, _)
RemoveBlockComments(s, i) ==
    IF i > Len(s) THEN <<>>
    ELSE LET j == CommentEnd(s, i + 2) IN
         IF i + 1 <= Len(s) /\ s[i] = "/" /\ s[i + 1] = "*" /\ j # 0
         THEN RemoveBlockComments(s, j + 2)
         ELSE <<s[i]>> \o RemoveBlockComments(s, i + 1)

\* Step 5, main.py:106-108
RemoveComments(s) == RemoveBlockComments(RemoveLineComments(s, 1), 1)

\* Step 6, main.py:110-111: str.strip()
RECURSIVE StripWhitespace(_)
StripWhitespace(s) ==
    IF s = <<>> THEN s
    ELSE IF s[1] \in Whitespace THEN StripWhitespace(Tail(s))
    ELSE IF s[Len(s)] \in Whitespace THEN StripWhitespace(SubSeq(s, 1, Len(s) - 1))
    ELSE s

\* json.loads, main.py:114: a recursive-descent reading of s from position i.
\* The result is [ok |-> FALSE] (JSONDecodeError) or the value and the
\* position after it.
NoParse == [ok |-> FALSE]
Parsed(v, next) == [ok |-> TRUE, value |-> v, next |-> next]

\* A string: the characters up to the next quote; a raw newline is refused.
ParseString(s, i) ==
    LET j == SkipTo(s, i + 1, {Quote}) IN
    IF j > Len(s) \/ \E k \in (i + 1)..(j - 1) : s[k] = "\n"
    THEN NoParse
    ELSE Parsed(JText(SubSeq(s, i + 1, j - 1)), j + 1)

\* The first position from i on that holds no digit.
RECURSIVE SkipDigits(_, _)
SkipDigits(s, i) == IF i <= Len(s) /\ s[i] \in Digits THEN SkipDigits(s, i + 1) ELSE i

\* A number: the digits from i on.
ParseNumber(s, i) ==
    Parsed(JNumber(SubSeq(s, i, SkipDigits(s, i) - 1)), SkipDigits(s, i))

\* dict[key] = value: a repeated key keeps its place and takes the new value.
SetMember(members, key, value) ==
    IF \E k \in 1..Len(members) : members[k].key = key
    THEN [k \in 1..Len(members) |->
            IF members[k].key = key THEN [key |-> key, value |-> value] ELSE members[k]]
    ELSE Append(members, [key |-> key, value |-> value])

RECURSIVE ParseValue(_, _)
RECURSIVE ParseElements(_, _, _)
RECURSIVE ParseMembers(_, _, _)

\* The elements of a list from position i on, after those in acc.
ParseElements(s, i, acc) ==
    LET v == ParseValue(s, i) IN
    IF ~v.ok THEN NoParse
    ELSE LET j == SkipWs(s, v.next) IN
         IF j > Len(s) THEN NoParse
         ELSE IF s[j] = "," THEN ParseElements(s, j + 1, Append(acc, v.value))
         ELSE IF s[j] = "]" THEN Parsed(JArray(Append(acc, v.value)), j + 1)
         ELSE NoParse

\* The members of a dict from position i on, after those in acc.
ParseMembers(s, i, acc) ==
    LET k == SkipWs(s, i) IN
    IF k > Len(s) \/ s[k] # Quote THEN NoParse
    ELSE LET key == ParseString(s, k) IN
         IF ~key.ok THEN NoParse
         ELSE LET c == SkipWs(s, key.next) IN
              IF c > Len(s) \/ s[c] # ":" THEN NoParse
              ELSE LET v == ParseValue(s, c + 1) IN
                   IF ~v.ok THEN NoParse
                   ELSE LET j == SkipWs(s, v.next)
                            members == SetMember(acc, key.value.chars, v.value)
                        IN IF j > Len(s) THEN NoParse
                           ELSE IF s[j] = "," THEN ParseMembers(s, j + 1, members)
                           ELSE IF s[j] = "}" THEN Parsed(JDict(members), j + 1)
                           ELSE NoParse

\* The value that begins at the first character from i on that is no whitespace.
ParseValue(s, i) ==
    LET j == SkipWs(s, i) IN
    IF j > Len(s) THEN NoParse
    ELSE IF s[j] = "[" THEN
         LET e == SkipWs(s, j + 1) IN
         IF e <= Len(s) /\ s[e] = "]" THEN Parsed(JArray(<<>>), e + 1)
         ELSE ParseElements(s, j + 1, <<>>)
    ELSE IF s[j] = "{" THEN
         LET e == SkipWs(s, j + 1) IN
         IF e <= Len(s) /\ s[e] = "}" THEN Parsed(JDict(<<>>), e + 1)
         ELSE ParseMembers(s, j + 1, <<>>)
    ELSE IF s[j] = Quote THEN ParseString(s, j)
    ELSE IF s[j] \in Digits THEN ParseNumber(s, j)
    ELSE NoParse

\* json.loads(s): one value and nothing but whitespace around it.
json_loads(s) ==
    LET v == ParseValue(s, 1) IN
    IF v.ok /\ SkipWs(s, v.next) > Len(s)
    THEN [ok |-> TRUE, value |-> v.value]
    ELSE [ok |-> FALSE, error |-> ParseError]

\* One alternative of json_pattern at position p, main.py:125: an opening
\* mark, then characters that are neither mark, then any number of inner
\* open ... close groups without marks inside, then the closing mark.  The
\* position of the closing mark, or 0 when the alternative does not match.
RECURSIVE MatchGroups(_, _, _, _)
MatchGroups(s, j, open, close) ==
    IF j > Len(s) THEN 0
    ELSE IF s[j] = close THEN j
    ELSE LET k == SkipTo(s, j + 1, {open, close}) IN
         IF k <= Len(s) /\ s[k] = close
         THEN MatchGroups(s, SkipTo(s, k + 1, {open, close}), open, close)
         ELSE 0

MatchNested(s, p, open, close) ==
    IF s[p] # open THEN 0 ELSE MatchGroups(s, SkipTo(s, p + 1, {open, close}), open, close)

\* re.findall(json_pattern, s, re.DOTALL) from position i on, main.py:125-126
RECURSIVE FindAll(_, _)
FindAll(s, i) ==
    IF i > Len(s) THEN <<>>
    ELSE LET braces == MatchNested(s, i, "{", "}")
             brackets == MatchNested(s, i, "[", "]")
             end == IF braces # 0 THEN braces ELSE brackets
         IN IF end # 0
            THEN <<SubSeq(s, i, end)>> \o FindAll(s, end + 1)
            ELSE FindAll(s, i + 1)

\* The first match json.loads accepts, main.py:128-134, or the ValueError of
\* main.py:138.
RECURSIVE FirstParsable(_)
FirstParsable(matches) ==
    IF matches = <<>> THEN [ok |-> FALSE, error |-> ParseError]
    ELSE IF json_loads(Head(matches)).ok THEN json_loads(Head(matches))
    ELSE FirstParsable(Tail(matches))

\* Step 7 and the except clause, main.py:113-138
ParseOrExtract(s) ==
    IF json_loads(s).ok THEN json_loads(s) ELSE FirstParsable(FindAll(s, 1))

\* json.dumps(v) with its default separators.
RECURSIVE Dumps(_)
RECURSIVE DumpItems(_, _)
RECURSIVE DumpMembers(_, _)
DumpItems(items, i) ==
    IF i > Len(items) THEN <<>>
    ELSE (IF i > 1 THEN <<",", " ">> ELSE <<>>) \o Dumps(items[i]) \o DumpItems(items, i + 1)
DumpMembers(members, i) ==
    IF i > Len(members) THEN <<>>
    ELSE (IF i > 1 THEN <<",", " ">> ELSE <<>>)
         \o <<Quote>> \o members[i].key \o <<Quote, ":", " ">>
         \o Dumps(members[i].value) \o DumpMembers(members, i + 1)
Dumps(v) ==
    CASE v.type = "array" -> <<"[">> \o DumpItems(v.items, 1) \o <<"]">>
      [] v.type = "object" -> <<"{">> \o DumpMembers(v.members, 1) \o <<"}">>
      [] v.type = "string" -> <<Quote>> \o v.chars \o <<Quote>>
      [] OTHER -> v.digits

\* A response as the model words it: the serialization of v with a comma
\* before its final closing bracket, in a json fence, between two pieces
\* of prose.
FencedAndPadded(v, lead, trail) ==
    LET d == Dumps(v) IN
    lead \o <<"\n", Fence, "json", "\n">>
         \o SubSeq(d, 1, Len(d) - 1) \o <<",", d[Len(d)]>>
         \o <<"\n", Fence, "\n">> \o trail

\* The values the model serializes.
One == JNumber(<<"1">>)
SanitizerStrings == { <<"a">>, <<"a", ",", "]">>, <<"/", "*", "a", "*", "/">> }
SanitizerValues ==
    { JArray(<<>>), JDict(<<>>), JArray(<<One>>), JArray(<<One, One>>),
      JArray(<<JArray(<<One>>), One>>), JArray(<<JArray(<<JArray(<<One>>)>>)>>),
      JDict(<<[key |-> <<"a">>, value |-> One]>>),
      JDict(<<[key |-> <<"a">>, value |-> JArray(<<One>>)],
              [key |-> <<"b">>, value |-> JDict(<<>>)]>>),
      JArray(<<JDict(<<[key |-> <<"a">>, value |-> One]>>)>>) }
    \cup { JArray(<<JText(t)>>) : t \in SanitizerStrings }
    \cup { JDict(<<[key |-> <<"a">>, value |-> JText(t)]>>) : t \in SanitizerStrings }

\* The prose before and after the fence.
LeadingProse == { <<"a", " ", "a", ":">>, <<"a", " ", "[", "a", "]", ":">> }
TrailingProse == { <<"a", " ", "a">>, <<"a", " ", "]">> }

\* --------------------------------------------------------- exam parameters
\* ExamParameters with "MST-2" left out of the list of main.py:228.
ExamParametersMst1Only(examType) ==
    IF examType = "MST-1"
    THEN [num_questions |-> 2, marks_ab |-> 3, marks_cd |-> 4, duration |-> "1 Hour"]
    ELSE [num_questions |-> 5, marks_ab |-> 4, marks_cd |-> 6, duration |-> "3 Hours"]

\* main.py:227-237
ExamParameters(examType) ==
    IF examType \in {"MST-1", "MST-2"}
    THEN [num_questions |-> 2, marks_ab |-> 3, marks_cd |-> 4, duration |-> "1 Hour"]
    ELSE [num_questions |-> 5, marks_ab |-> 4, marks_cd |-> 6, duration |-> "3 Hours"]

\* ----------------------------------------------------- outline normalization
\* main.py:276-278
AsList(parsed) == IF parsed.type = "array" THEN parsed.items ELSE <<parsed>>

\* outline[:num_questions], main.py:281
Truncate(seq, n) == SubSeq(seq, 1, IF Len(seq) < n THEN Len(seq) ELSE n)

\* topics[i % len(topics)] with Python's 0-based i, main.py:287 and main.py:301
TopicAt(tps, i) == tps[(i % Len(tps)) + 1]

\* NormalizeOutline numbering the synthetic entries i instead of i + 1.
NormalizeOutlineZeroBased(parsed, n, tps) ==
    LET cut == Truncate(AsList(parsed), n)
    IN [p \in 1..n |->
           IF p <= Len(cut) THEN cut[p]
           ELSE Entry(p - 1, TopicAt(tps, p - 1))]

\* main.py:276-288: the outline Phase 2 iterates over.
NormalizeOutline(parsed, n, tps) ==
    LET cut == Truncate(AsList(parsed), n)
    IN [p \in 1..n |->
           IF p <= Len(cut) THEN cut[p]
           ELSE Entry((p - 1) + 1, TopicAt(tps, p - 1))]

\* -------------------------------------------------------- question records
\* FallbackQuestion giving part c the marks of parts a and b.
FallbackQuestionMarksAB(qn, tp, mab, mcd) ==
    [questionNumber |-> qn,
     parts |-> << [label |-> "a", text |-> <<"Define ">> \o tp, marks |-> mab],
                  [label |-> "b", text |-> <<"Explain the key concepts of ">> \o tp,
                   marks |-> mab],
                  [label |-> "c",
                   text |-> <<"Apply ">> \o tp \o <<" in a real-world scenario">>,
                   marks |-> mab, hasOR |-> TRUE,
                   orText |-> <<"Analyze the benefits of ">> \o tp] >>]

\* The fallback question of main.py:365-372.
FallbackQuestion(qn, tp, mab, mcd) ==
    [questionNumber |-> qn,
     parts |-> << [label |-> "a", text |-> <<"Define ">> \o tp, marks |-> mab],
                  [label |-> "b", text |-> <<"Explain the key concepts of ">> \o tp,
                   marks |-> mab],
                  [label |-> "c",
                   text |-> <<"Apply ">> \o tp \o <<" in a real-world scenario">>,
                   marks |-> mcd, hasOR |-> TRUE,
                   orText |-> <<"Analyze the benefits of ">> \o tp] >>]

\* question_data['questionNumber'] = q_num, main.py:355
SetQuestionNumber(obj, qn) ==
    [k \in (DOMAIN obj) \cup {"questionNumber"} |->
        IF k = "questionNumber" THEN qn ELSE obj[k]]

\* The checks of main.py:348-352 on the parsed content response.
ValidQuestion(value) == value.type = "object" /\ "parts" \in DOMAIN value.obj

\* ------------------------------------------------------------ HTTP results
NoResponse == [status |-> 0]

\* main.py:382-391
SuccessResponse(questions, dur, n, model) ==
    [status |-> 200, success |-> TRUE, questions |-> questions,
     examInfo |-> [duration |-> dur, numQuestions |-> n], modelUsed |-> model]

\* StatusFor without the 'API key' test of main.py:410.
StatusForNoKeyTest(e) ==
    IF e.exc = "TimeoutError" THEN 504
    ELSE IF Contains(e.msg, "429") \/ Contains(Lower(e.msg), "quota") THEN 429
    ELSE 500

\* The status the except clauses of main.py:393-419 choose for an exception.
StatusFor(e) ==
    IF e.exc = "TimeoutError" THEN 504
    ELSE IF Contains(e.msg, "429") \/ Contains(Lower(e.msg), "quota") THEN 429
    ELSE IF Contains(e.msg, "API key") THEN 401
    ELSE 500

\* The detail of the HTTPException, main.py:397, 408, 413, 418.
ErrorDetail(e) ==
    CASE StatusFor(e) = 504 -> <<"Request timed out. Please try again.">>
      [] StatusFor(e) = 429 -> <<"API quota exceeded. Please try again later.">>
      [] StatusFor(e) = 401 -> <<"Invalid API key configuration">>
      [] OTHER -> <<"Failed to generate questions: ">> \o e.msg

\* HTTPException(status_code, detail), main.py:393-419
ErrorResponse(e) == [status |-> StatusFor(e), detail |-> ErrorDetail(e)]

\* ------------------------------------------------------------------- state
VARIABLES
    pc,             \* where the request is: "idle", "gen" (a generation call is
                    \* in flight), "backoff" (sleep of main.py:175/187), "ret" /
                    \* "raise" (the invoker returned / raised), "retry_sleep"
                    \* (main.py:374), "pace" (main.py:378), "done"
    request,        \* QuestionRequest: examType, topicHeadings
    num_questions, marks_ab, marks_cd, duration,    \* main.py:228-237
    topics,         \* main.py:240
    outline,        \* main.py:274-288
    used_model,     \* main.py:273
    all_questions,  \* main.py:297
    q_idx,          \* position of q_outline in outline (the for of main.py:299)
    q_num, topic,   \* main.py:300-301
    retry,          \* main.py:336
    caller,         \* the call site of generate_with_fallback: "outline" / "content"
    models_to_try,  \* main.py:146
    cand,           \* position of current_model in models_to_try (main.py:148)
    last_error,     \* main.py:143
    attempt,        \* main.py:144
    invoked,        \* the generation attempts of the current invoker call, in
                    \* order: the model, what the call did ("ok", "timeout",
                    \* "error", "text" for an empty or short text) and the
                    \* failure recorded in last_error (NoError: none)
    result,         \* what the invoker returned (main.py:170) or raised (main.py:203)
    http,           \* the response of POST /api/generate-questions
    calls,          \* generation calls made for the request so far (main.py:156),
                    \* counted when two requests are served
    active,         \* 0: one request is served; 1, 2: which of two concurrent
                    \* requests the event loop is running
    parked,         \* the locals of the other, suspended request
    san_pc,         \* the step clean_and_parse_json is at, when it is followed
                    \* character by character: "start", "step1" .. "step7", "returned"
    raw_value,      \* the JSON value the model serialized
    response_text,  \* main.py:81-111
    returned        \* what clean_and_parse_json returned, or the error it raised

handlerVars == <<request, num_questions, marks_ab, marks_cd, duration, topics,
                 outline, used_model, all_questions, q_idx, q_num, topic, retry>>
invokerVars == <<caller, models_to_try, cand, last_error, attempt, invoked, result>>
schedVars == <<active, parked>>
pipelineVars == <<pc, handlerVars, invokerVars, http, calls, schedVars>>
sanVars == <<san_pc, raw_value, response_text, returned>>
vars == <<pipelineVars, sanVars>>

NoModel == "none"
NoResult == [kind |-> "none"]

ExamTypes == {"MST-1", "MST-2", "End-Sem", "Quiz"}
Requests ==
    [examType : ExamTypes, topicHeadings : { HeadingOf(n) : n \in 1..MaxTopics }]

\* The two requests served concurrently, by the coroutine they arrive at.
PairRequests ==
    { [examType |-> "MST-1", topicHeadings |-> HeadingOf(1)],
      [examType |-> "MST-2", topicHeadings |-> HeadingOf(1)] }

\* The requests that can arrive at the running coroutine.
ArrivingRequests ==
    IF active = 0 THEN Requests
    ELSE { r \in PairRequests : (r.examType = "MST-1") <=> (active = 1) }

\* The locals of a coroutine: those of generate_questions (main.py:223-391),
\* those of the generate_with_fallback call it is in (main.py:141-205), its
\* position and its response.  The module holds no other mutable state
\* (main.py:16-47 are set once at import).
Locals ==
    [pc |-> pc, request |-> request, num_questions |-> num_questions,
     marks_ab |-> marks_ab, marks_cd |-> marks_cd, duration |-> duration,
     topics |-> topics, outline |-> outline, used_model |-> used_model,
     all_questions |-> all_questions, q_idx |-> q_idx, q_num |-> q_num,
     topic |-> topic, retry |-> retry, caller |-> caller,
     models_to_try |-> models_to_try, cand |-> cand, last_error |-> last_error,
     attempt |-> attempt, invoked |-> invoked, result |-> result,
     http |-> http, calls |-> calls]

\* The locals of a request that has not arrived yet.
NewRequest ==
    [pc |-> "idle", request |-> [examType |-> "", topicHeadings |-> <<>>],
     num_questions |-> 0, marks_ab |-> 0, marks_cd |-> 0, duration |-> "",
     topics |-> <<>>, outline |-> <<>>, used_model |-> NoModel,
     all_questions |-> <<>>, q_idx |-> 0, q_num |-> 0,
     topic |-> <<>>, retry |-> 0, caller |-> "none",
     models_to_try |-> <<>>, cand |-> 0, last_error |-> NoError,
     attempt |-> 0, invoked |-> <<>>, result |-> NoResult,
     http |-> NoResponse, calls |-> 0]

InitLocals ==
    /\ pc = "idle"
    /\ request = [examType |-> "", topicHeadings |-> <<>>]
    /\ num_questions = 0 /\ marks_ab = 0 /\ marks_cd = 0 /\ duration = ""
    /\ topics = <<>>
    /\ outline = <<>>
    /\ used_model = NoModel
    /\ all_questions = <<>>
    /\ q_idx = 0 /\ q_num = 0 /\ topic = <<>> /\ retry = 0
    /\ caller = "none"
    /\ models_to_try = <<>>
    /\ cand = 0
    /\ last_error = NoError
    /\ attempt = 0
    /\ invoked = <<>>
    /\ result = NoResult
    /\ http = NoResponse
    /\ calls = 0

\* No response text has been handed to clean_and_parse_json.
InitSanitizer ==
    /\ san_pc = "start"
    /\ raw_value = JArray(<<>>)
    /\ response_text = <<>>
    /\ returned = NoParse

\* One request is served.
Init == InitLocals /\ active = 0 /\ parked = NewRequest /\ InitSanitizer

\* Two requests are served on one event loop; neither has arrived.
PairInit == InitLocals /\ active = 1 /\ parked = NewRequest /\ InitSanitizer

\* ------------------------------------------------- generate_with_fallback
\* CallInvoker ignoring model_name: every call walks the fallback list.
CallInvokerUnpinned(site, model_name) ==
    /\ caller' = site
    /\ last_error' = NoError
    /\ attempt' = 0
    /\ models_to_try' = MODEL_FALLBACK_LIST
    /\ cand' = 1
    /\ invoked' = <<>>
    /\ result' = NoResult
    /\ pc' = "gen"

\* Entry of generate_with_fallback, main.py:141-148, up to the first
\* generation call.
CallInvoker(site, model_name) ==
    /\ caller' = site
    /\ last_error' = NoError
    /\ attempt' = 0
    /\ models_to_try' = IF model_name # NoModel THEN <<model_name>> ELSE MODEL_FALLBACK_LIST
    /\ cand' = 1
    /\ invoked' = <<>>
    /\ result' = NoResult
    /\ pc' = "gen"

\* What model.generate_content under asyncio.wait_for can do, main.py:156-163.
Outcomes(site) ==
    { [kind |-> "timeout"] }
    \cup { [kind |-> "error", error |-> e] : e \in UpstreamErrors }
    \cup { [kind |-> "text", text |-> t] :
             t \in IF site = "outline" THEN OutlineTexts ELSE ContentTexts }

\* The outcomes explored when two requests are served: a timeout, or the
\* text the prompt asks for.
PairOutcomes(site) ==
    { [kind |-> "timeout"],
      [kind |-> "text",
       text |-> IF site = "outline" THEN Text(FALSE, JArray(Canon(2)))
                ELSE Text(FALSE, JObject([parts |-> ModelParts]))] }

PossibleOutcomes(site) == IF active = 0 THEN Outcomes(site) ELSE PairOutcomes(site)

\* ReturnValue naming the head of the fallback list instead of current_model.
ReturnValueFirstModel(text, current_model) ==
    [kind |-> "return", text |-> text, model |-> MODEL_FALLBACK_LIST[1]]

\* return response, current_model -- main.py:170
ReturnValue(text, current_model) ==
    [kind |-> "return", text |-> text, model |-> current_model]

\* RaisedError raising the generic exception whatever was recorded.
RaisedErrorGeneric(err) ==
    Err("Exception", <<"All models failed to generate content">>)

\* main.py:201-205: the exception raised once the list is exhausted.
RaisedError(err) ==
    IF err # NoError THEN err
    ELSE Err("Exception", <<"All models failed to generate content">>)

\* `continue` of main.py:176-199: the next candidate, or main.py:201-205.
NextCandidate(err) ==
    /\ cand' = cand + 1
    /\ IF cand + 1 <= Len(models_to_try)
       THEN /\ pc' = "gen"
            /\ result' = result
       ELSE /\ pc' = "raise"
            /\ result' = [kind |-> "raise", error |-> RaisedError(err)]

\* Sleeps without the sleep of main.py:175 after a timeout.
SleepsOnRateLimitOnly(o, err) == IsRateLimit(err)

\* Whether the except clauses of main.py:172-199 sleep before `continue`.
Sleeps(o, err) == o.kind = "timeout" \/ IsRateLimit(err)

\* One iteration of the for of main.py:148 up to its next suspension point:
\* the generation call, its outcome and the except clause it selects.
Attempt ==
    /\ pc = "gen"
    /\ attempt' = attempt + 1
    /\ calls' = IF active = 0 THEN calls ELSE calls + 1
    /\ UNCHANGED <<handlerVars, http, caller, models_to_try, schedVars, sanVars>>
    /\ LET current_model == models_to_try[cand] IN
       \E o \in PossibleOutcomes(caller) :
          IF o.kind = "text" /\ ~o.text.short
          THEN \* main.py:169-170
               /\ result' = ReturnValue(o.text, current_model)
               /\ invoked' = Append(invoked, [model |-> current_model, outcome |-> "ok",
                                              error |-> NoError])
               /\ pc' = "ret"
               /\ UNCHANGED <<cand, last_error>>
          ELSE LET err == CASE o.kind = "timeout" -> TimeoutFailure(current_model)
                            [] o.kind = "error" -> o.error
                            [] OTHER -> EmptyResponseError
               IN /\ last_error' = err
                  /\ invoked' = Append(invoked, [model |-> current_model, outcome |-> o.kind,
                                                 error |-> err])
                  /\ IF Sleeps(o, err)
                     THEN pc' = "backoff" /\ UNCHANGED <<cand, result>>
                     ELSE NextCandidate(err)

\* await asyncio.sleep(1); continue -- main.py:175-176 and main.py:187-188
Backoff ==
    /\ pc = "backoff"
    /\ NextCandidate(last_error)
    /\ UNCHANGED <<handlerVars, http, caller, models_to_try, last_error, attempt, invoked,
                   calls, schedVars, sanVars>>

\* The frame of a finished invoker call is gone once the handler runs on.
LeaveInvoker ==
    /\ caller' = "none"
    /\ models_to_try' = <<>>
    /\ cand' = 0
    /\ last_error' = NoError
    /\ attempt' = 0
    /\ invoked' = <<>>
    /\ result' = NoResult

\* ------------------------------------------------------ generate_questions
\* Fail answering with the questions collected so far next to the error.
FailWithPartialQuestions(e) ==
    /\ pc' = "done"
    /\ http' = [status |-> StatusFor(e), detail |-> ErrorDetail(e),
                questions |-> all_questions]
    /\ UNCHANGED invokerVars

\* An exception reaching the except clauses of main.py:393-419 ends the
\* request; the record of the last invoker call is left as it is.
Fail(e) ==
    /\ pc' = "done"
    /\ http' = ErrorResponse(e)
    /\ UNCHANGED invokerVars

\* q_outline.get('topic', topics[(q_num - 1) % len(topics)]), main.py:301
TopicOf(obj, qn, tps) ==
    IF "topic" \in DOMAIN obj THEN obj.topic ELSE TopicAt(tps, qn - 1)

\* The for of main.py:299 reaching position idx of the outline ol, with the
\* questions qs collected so far: main.py:300-343 up to the generation call
\* of the first attempt, or main.py:380-391 when the outline is used up.
ForQuestion(ol, idx, qs, model) ==
    /\ q_idx' = idx
    /\ IF idx > Len(ol)
       THEN /\ pc' = "done"
            /\ http' = SuccessResponse(qs, duration, num_questions, model)
            /\ UNCHANGED <<q_num, topic, retry, invokerVars>>
       ELSE LET q_outline == ol[idx] IN
            IF q_outline.type # "object"
            THEN /\ Fail(Err("TypeError", <<"indices must be integers">>))
                 /\ UNCHANGED <<q_num, topic, retry>>
            ELSE IF "questionNumber" \notin DOMAIN q_outline.obj
            THEN /\ Fail(Err("KeyError", <<"'questionNumber'">>))
                 /\ UNCHANGED <<q_num, topic, retry>>
            ELSE /\ q_num' = q_outline.obj.questionNumber
                 /\ topic' = TopicOf(q_outline.obj, q_outline.obj.questionNumber, topics)
                 /\ retry' = 0
                 /\ http' = http
                 /\ CallInvoker("content", model)

\* Whether the pacing sleep of main.py:377-378 is taken.
Paces(qn, ol) == qn < Len(ol)

\* main.py:376-378 after the retry loop of a question, then the next question.
AfterRetries(qs) ==
    IF Paces(q_num, outline)
    THEN /\ pc' = "pace"
         /\ LeaveInvoker
         /\ UNCHANGED <<q_idx, q_num, topic, retry, http>>
    ELSE ForQuestion(outline, q_idx + 1, qs, used_model)

\* OnAttemptFailed without the test of main.py:363: a fallback per failure.
OnAttemptFailedAlways(qs, r) ==
    Append(qs, FallbackQuestion(q_num, topic, marks_ab, marks_cd))

\* The question appended when attempt number `retry` (0-based) fails,
\* main.py:363-373: the fallback after the last attempt, nothing before.
OnAttemptFailed(qs, r) ==
    IF r = max_retries - 1
    THEN Append(qs, FallbackQuestion(q_num, topic, marks_ab, marks_cd))
    ELSE qs

\* except Exception of main.py:361-374, up to the sleep of main.py:374.
RetryFailed ==
    /\ all_questions' = OnAttemptFailed(all_questions, retry)
    /\ pc' = "retry_sleep"
    /\ LeaveInvoker
    /\ UNCHANGED <<request, num_questions, marks_ab, marks_cd, duration, topics,
                   outline, used_model, q_idx, q_num, topic, retry, http>>

\* POST /api/generate-questions arrives: main.py:223-273 up to the first
\* generation call of the outline phase.
Receive ==
    /\ pc = "idle"
    /\ UNCHANGED <<calls, schedVars, sanVars>>
    /\ \E req \in ArrivingRequests :
          LET params == ExamParameters(req.examType) IN
          /\ request' = req
          /\ num_questions' = params.num_questions
          /\ marks_ab' = params.marks_ab
          /\ marks_cd' = params.marks_cd
          /\ duration' = params.duration
          /\ topics' = SplitTopics(req.topicHeadings)
    /\ CallInvoker("outline", NoModel)
    /\ UNCHANGED <<outline, used_model, all_questions, q_idx, q_num, topic, retry, http>>

\* The outline call returned: main.py:273-301 and on to the first content call.
OutlineReturned ==
    /\ pc = "ret" /\ caller = "outline"
    /\ UNCHANGED <<calls, schedVars, sanVars>>
    /\ used_model' = result.model
    /\ UNCHANGED <<request, num_questions, marks_ab, marks_cd, duration, topics>>
    /\ LET parsed == clean_and_parse_json(result.text) IN
       IF ~parsed.ok
       THEN /\ Fail(parsed.error)
            /\ UNCHANGED <<outline, all_questions, q_idx, q_num, topic, retry>>
       ELSE /\ outline' = NormalizeOutline(parsed.value, num_questions, topics)
            /\ all_questions' = <<>>
            /\ ForQuestion(outline', 1, <<>>, result.model)

\* The outline call raised: the except clauses of main.py:393-419.
OutlineFailed ==
    /\ pc = "raise" /\ caller = "outline"
    /\ UNCHANGED <<calls, schedVars, sanVars>>
    /\ Fail(result.error)
    /\ UNCHANGED handlerVars

\* A content call returned: main.py:345-359, or main.py:361-374 when the
\* response does not parse or fails the checks.
ContentReturned ==
    /\ pc = "ret" /\ caller = "content"
    /\ UNCHANGED <<calls, schedVars, sanVars>>
    /\ LET parsed == clean_and_parse_json(result.text) IN
       IF parsed.ok /\ ValidQuestion(parsed.value)
       THEN /\ all_questions' =
                   Append(all_questions, SetQuestionNumber(parsed.value.obj, q_num))
            /\ AfterRetries(all_questions')
            /\ UNCHANGED <<request, num_questions, marks_ab, marks_cd, duration,
                           topics, outline, used_model>>
       ELSE RetryFailed

\* A content call raised: main.py:361-374.
ContentFailed ==
    /\ pc = "raise" /\ caller = "content"
    /\ UNCHANGED <<calls, schedVars, sanVars>>
    /\ RetryFailed

\* RetrySleep with one attempt more than max_retries.
RetrySleepOneMore ==
    /\ pc = "retry_sleep"
    /\ UNCHANGED <<calls, schedVars, sanVars>>
    /\ UNCHANGED <<request, num_questions, marks_ab, marks_cd, duration, topics,
                   outline, used_model, all_questions>>
    /\ IF retry < max_retries
       THEN /\ retry' = retry + 1
            /\ CallInvoker("content", used_model)
            /\ UNCHANGED <<q_idx, q_num, topic, http>>
       ELSE AfterRetries(all_questions)

\* After the sleep of main.py:374: the next attempt, or the end of the retry loop.
RetrySleep ==
    /\ pc = "retry_sleep"
    /\ UNCHANGED <<calls, schedVars, sanVars>>
    /\ UNCHANGED <<request, num_questions, marks_ab, marks_cd, duration, topics,
                   outline, used_model, all_questions>>
    /\ IF retry + 1 < max_retries
       THEN /\ retry' = retry + 1
            /\ CallInvoker("content", used_model)
            /\ UNCHANGED <<q_idx, q_num, topic, http>>
       ELSE AfterRetries(all_questions)

\* After the sleep of main.py:378: the next outline entry.
Pace ==
    /\ pc = "pace"
    /\ UNCHANGED <<calls, schedVars, sanVars>>
    /\ UNCHANGED <<request, num_questions, marks_ab, marks_cd, duration, topics,
                   outline, used_model, all_questions>>
    /\ ForQuestion(outline, q_idx + 1, all_questions, used_model)

\* ResumeOther with all_questions kept in a list shared by the coroutines.
ResumeOtherSharedQuestions ==
    /\ pc' = parked.pc /\ request' = parked.request
    /\ num_questions' = parked.num_questions
    /\ marks_ab' = parked.marks_ab /\ marks_cd' = parked.marks_cd
    /\ duration' = parked.duration /\ topics' = parked.topics
    /\ outline' = parked.outline /\ used_model' = parked.used_model
    /\ all_questions' = all_questions
    /\ q_idx' = parked.q_idx /\ q_num' = parked.q_num
    /\ topic' = parked.topic /\ retry' = parked.retry
    /\ caller' = parked.caller /\ models_to_try' = parked.models_to_try
    /\ cand' = parked.cand /\ last_error' = parked.last_error
    /\ attempt' = parked.attempt /\ invoked' = parked.invoked
    /\ result' = parked.result /\ http' = parked.http /\ calls' = parked.calls

\* The suspended coroutine is resumed: its locals are the ones it was
\* suspended with (every name of main.py:141-391 is local to its call).
ResumeOther ==
    /\ pc' = parked.pc /\ request' = parked.request
    /\ num_questions' = parked.num_questions
    /\ marks_ab' = parked.marks_ab /\ marks_cd' = parked.marks_cd
    /\ duration' = parked.duration /\ topics' = parked.topics
    /\ outline' = parked.outline /\ used_model' = parked.used_model
    /\ all_questions' = parked.all_questions
    /\ q_idx' = parked.q_idx /\ q_num' = parked.q_num
    /\ topic' = parked.topic /\ retry' = parked.retry
    /\ caller' = parked.caller /\ models_to_try' = parked.models_to_try
    /\ cand' = parked.cand /\ last_error' = parked.last_error
    /\ attempt' = parked.attempt /\ invoked' = parked.invoked
    /\ result' = parked.result /\ http' = parked.http /\ calls' = parked.calls

\* The event loop leaves the running coroutine at one of its awaits
\* (main.py:156, 175, 187, 374, 378), before its arrival or after its
\* response, and runs the other one.
Switch ==
    /\ active \in {1, 2}
    /\ pc \notin {"ret", "raise"}
    /\ parked.pc # "done"
    /\ active' = 3 - active
    /\ parked' = Locals
    /\ ResumeOther
    /\ UNCHANGED sanVars

Next ==
    \/ Receive
    \/ Attempt
    \/ Backoff
    \/ OutlineReturned
    \/ OutlineFailed
    \/ ContentReturned
    \/ ContentFailed
    \/ RetrySleep
    \/ Pace

Spec == Init /\ [][Next]_vars

\* ------------------------------------------- clean_and_parse_json, stepwise
\* The model answers with a value in a fence between prose, and the text is
\* handed to clean_and_parse_json (main.py:81).
ModelResponds ==
    /\ san_pc = "start"
    /\ \E v \in SanitizerValues, lead \in LeadingProse, trail \in TrailingProse :
          /\ raw_value' = v
          /\ response_text' = FencedAndPadded(v, lead, trail)
    /\ san_pc' = "step1"
    /\ UNCHANGED <<returned, pipelineVars>>

\* main.py:89-91
Step1Fences ==
    /\ san_pc = "step1"
    /\ response_text' = RemoveFences(response_text)
    /\ san_pc' = "step2"
    /\ UNCHANGED <<raw_value, returned, pipelineVars>>

\* main.py:93-96
Step2Before ==
    /\ san_pc = "step2"
    /\ response_text' = FromFirstOpen(response_text)
    /\ san_pc' = "step3"
    /\ UNCHANGED <<raw_value, returned, pipelineVars>>

\* main.py:98-101
Step3After ==
    /\ san_pc = "step3"
    /\ response_text' = ToLastClose(response_text)
    /\ san_pc' = "step4"
    /\ UNCHANGED <<raw_value, returned, pipelineVars>>

\* main.py:103-104
Step4Commas ==
    /\ san_pc = "step4"
    /\ response_text' = RemoveTrailingCommas(response_text, 1)
    /\ san_pc' = "step5"
    /\ UNCHANGED <<raw_value, returned, pipelineVars>>

\* main.py:106-108
Step5Comments ==
    /\ san_pc = "step5"
    /\ response_text' = RemoveComments(response_text)
    /\ san_pc' = "step6"
    /\ UNCHANGED <<raw_value, returned, pipelineVars>>

\* main.py:110-111
Step6Strip ==
    /\ san_pc = "step6"
    /\ response_text' = StripWhitespace(response_text)
    /\ san_pc' = "step7"
    /\ UNCHANGED <<raw_value, returned, pipelineVars>>

\* main.py:113-138
Step7Parse ==
    /\ san_pc = "step7"
    /\ returned' = ParseOrExtract(response_text)
    /\ san_pc' = "returned"
    /\ UNCHANGED <<raw_value, response_text, pipelineVars>>

SanitizerNext ==
    \/ ModelResponds
    \/ Step1Fences
    \/ Step2Before
    \/ Step3After
    \/ Step4Commas
    \/ Step5Comments
    \/ Step6Strip
    \/ Step7Parse

SanitizerSpec == Init /\ [][SanitizerNext]_vars

\* A step of one of two requests served on one event loop.
PairNext ==
    \/ Receive
    \/ Attempt
    \/ Backoff
    \/ OutlineReturned
    \/ OutlineFailed
    \/ ContentReturned
    \/ ContentFailed
    \/ RetrySleep
    \/ Pace
    \/ Switch

PairSpec == PairInit /\ [][PairNext]_vars

\* The event loop resumes every coroutine that is ready: a request that can
\* take a step again and again takes it, and each generation call returns,
\* raises or times out (main.py:156-163).
FairPairSpec ==
    /\ PairSpec
    /\ WF_vars(Switch)
    /\ \A r \in {1, 2} : SF_vars(active = r /\ Next)

\* ------------------------------------------------------------------ claims
\* The outline call returned and its text was parsed and normalized.
Phase1Succeeded == used_model # NoModel /\ Len(outline) > 0

\* The outline call failed on every model of the fallback list.
Phase1Exhausted == caller = "outline" /\ result.kind = "raise"

\* C1: whenever Phase 1 succeeded, the request ends with exactly
\* num_questions questions, and the question at 1-based position i has
\* questionNumber i (whatever outline the model returned and whatever
\* failed in Phase 2).
C1_QuestionsNumberedByPosition ==
    (pc = "done" /\ Phase1Succeeded) =>
        /\ http.status = 200
        /\ Len(http.questions) = num_questions
        /\ \A i \in 1..Len(http.questions) : http.questions[i].questionNumber = i

\* C2: the request ends in an error only when Phase 1 exhausted the
\* fallback list; every other request ends with the success envelope
\* carrying num_questions questions.
C2_FailsOnlyWhenPhase1Exhausted ==
    pc = "done" =>
        IF Phase1Exhausted
        THEN http.status # 200
        ELSE http.status = 200 /\ Len(http.questions) = num_questions

\* C3: when the invoker returns, it has invoked the candidates in list
\* order, each once; every candidate before the last invoked one failed, the
\* last one returned a valid (non-short) text, the invoker returns that
\* candidate's identifier, and no later candidate was invoked.
C3_FirstSuccessReturned ==
    pc = "ret" =>
        LET n == Len(invoked) IN
        /\ n >= 1 /\ n <= Len(models_to_try) /\ cand = n /\ attempt = n
        /\ \A i \in 1..n : invoked[i].model = models_to_try[i]
        /\ \A i \in 1..(n - 1) : invoked[i].outcome # "ok" /\ invoked[i].error # NoError
        /\ invoked[n].outcome = "ok"
        /\ result.kind = "return"
        /\ result.model = models_to_try[n]
        /\ ~result.text.short

\* C3 witness: the first two models of the fallback list failed and the
\* third returned.
C3_Witness ==
    /\ pc = "ret" /\ caller = "outline"
    /\ Len(invoked) = 3
    /\ invoked[1].outcome = "error" /\ invoked[2].outcome = "timeout"
    /\ result.model = "gemini-3-flash"

\* C4: when the invoker raises, it has invoked every candidate exactly once
\* in list order, all of them failed, and the exception raised is the
\* failure recorded for the last candidate (for a timeout, the synthesized
\* 'timed out' error naming that candidate), not an earlier one.
C4_AllFailedRaisesLast ==
    pc = "raise" =>
        LET n == Len(invoked) IN
        /\ n = Len(models_to_try) /\ n >= 1
        /\ \A i \in 1..n : /\ invoked[i].model = models_to_try[i]
                           /\ invoked[i].outcome # "ok"
                           /\ invoked[i].error # NoError
        /\ result.kind = "raise"
        /\ result.error = invoked[n].error
        /\ invoked[n].outcome = "timeout" =>
               result.error = [exc |-> "Exception",
                               msg |-> <<"Model", models_to_try[n], "timed out">>]

\* C4 witness: the three models failed in three different ways, the last
\* one by timing out.
C4_Witness ==
    /\ pc = "raise" /\ caller = "outline"
    /\ Len(invoked) = 3
    /\ invoked[1].outcome = "error" /\ invoked[2].outcome = "text"
    /\ invoked[3].outcome = "timeout"
    /\ invoked[1].error # invoked[3].error

\* C5: a request that failed because every Phase-1 candidate timed out is
\* answered with HTTP status 504.
C5_TimeoutGives504 ==
    (/\ pc = "done" /\ Phase1Exhausted
     /\ \A i \in 1..Len(invoked) : invoked[i].outcome = "timeout")
        => http.status = 504

\* C6: a request that failed with an upstream error whose message contains,
\* case-insensitively, '429', 'quota', 'rate limit' or 'resource exhausted'
\* is answered with HTTP status 429.
C6_RateLimitGives429 ==
    (/\ pc = "done" /\ Phase1Exhausted
     /\ invoked[Len(invoked)].outcome = "error"
     /\ \E k \in {"429", "quota", "rate limit", "resource exhausted"} :
           \E i \in 1..Len(result.error.msg) : LowerFragment(result.error.msg[i]) = k)
        => http.status = 429

\* A question with exactly the parts a, b, c in that order, part c with
\* hasOR = true and a non-empty orText.
WellFormed(q) ==
    /\ "parts" \in DOMAIN q
    /\ Len(q.parts) = 3
    /\ q.parts[1].label = "a" /\ q.parts[2].label = "b" /\ q.parts[3].label = "c"
    /\ "hasOR" \in DOMAIN q.parts[3] /\ q.parts[3].hasOR = TRUE
    /\ "orText" \in DOMAIN q.parts[3] /\ q.parts[3].orText # <<>>

\* C7: every question of a successful response is well-formed, whether it
\* was accepted from the model or synthesized.
C7_QuestionsWellFormed ==
    (pc = "done" /\ http.status = 200) =>
        \A i \in 1..Len(http.questions) : WellFormed(http.questions[i])

\* C8: once the third attempt for an outline entry has failed, the question
\* recorded for the entry is the fallback: the entry's number, 'Define
\* {topic}' and 'Explain the key concepts of {topic}' with marksAB, 'Apply
\* {topic} in a real-world scenario' with marksCD, hasOR and 'Analyze the
\* benefits of {topic}', the marks being those of the request's examType and
\* {topic} the entry's topic (for an entry without one, the request's topic
\* at index (number - 1) mod len(topics)).
C8_FallbackQuestionExact ==
    (pc = "retry_sleep" /\ retry = 2) =>
        LET e == outline[q_idx].obj
            mst == request.examType \in {"MST-1", "MST-2"}
            marksAB == IF mst THEN 3 ELSE 4
            marksCD == IF mst THEN 4 ELSE 6
            t == IF "topic" \in DOMAIN e THEN e.topic
                 ELSE topics[((e.questionNumber - 1) % Len(topics)) + 1]
        IN /\ Len(all_questions) = q_idx
           /\ all_questions[q_idx] =
                [questionNumber |-> e.questionNumber,
                 parts |-> << [label |-> "a", text |-> <<"Define ">> \o t,
                               marks |-> marksAB],
                              [label |-> "b",
                               text |-> <<"Explain the key concepts of ">> \o t,
                               marks |-> marksAB],
                              [label |-> "c",
                               text |-> <<"Apply ">> \o t \o <<" in a real-world scenario">>,
                               marks |-> marksCD, hasOR |-> TRUE,
                               orText |-> <<"Analyze the benefits of ">> \o t] >>]

\* C8 witness: all three attempts for question 3 of an End-Sem paper failed
\* (the first two questions having been accepted from the model).
C8_Witness ==
    /\ pc = "retry_sleep" /\ retry = 2
    /\ request.examType = "End-Sem"
    /\ q_idx = 3 /\ q_num = 3
    /\ Len(all_questions) = 3
    /\ all_questions[1].parts = ModelParts
    /\ all_questions[3].parts[1].text = <<"Define ", "M">>

\* C9: normalization of a parsed outline of k entries (a non-array value
\* counting as one entry) gives exactly num_questions entries: the model's
\* first entries unchanged at the positions below k, and at every 0-based
\* index i in k..num_questions-1 the synthetic entry
\* {questionNumber: i+1, topic: topics[i mod len(topics)]}.
C9_OutlineNormalized ==
    [][ (pc = "ret" /\ caller = "outline" /\ result.text.json.type # "none") =>
          LET v == result.text.json
              items == IF v.type = "array" THEN v.items ELSE <<v>>
              k == Len(items)
              n == num_questions
          IN /\ Len(outline') = n
             /\ \A i \in 0..(n - 1) :
                   outline'[i + 1] =
                      IF i < k THEN items[i + 1]
                      ELSE [type |-> "object",
                            obj |-> [questionNumber |-> i + 1,
                                     topic |-> topics[(i % Len(topics)) + 1]]]
      ]_vars

\* C9 witness: the model returned one entry for an End-Sem paper with two
\* topics, and entries 2 to 5 were synthesized by cycling through the topics.
C9_Witness ==
    /\ pc = "gen" /\ caller = "content" /\ q_idx = 1
    /\ num_questions = 5 /\ Len(topics) = 2
    /\ outline[1] = Entry(1, ModelTopic)
    /\ outline[2] = Entry(2, <<"B">>) /\ outline[3] = Entry(3, <<"A">>)
    /\ outline[4] = Entry(4, <<"B">>) /\ outline[5] = Entry(5, <<"A">>)

\* C10: the exam parameters are those of the fixed table for the request's
\* examType ('MST-1' and 'MST-2': 2, 3, 4, '1 Hour'; anything else: 5, 4, 6,
\* '3 Hours'), and the examInfo of a successful response reports that
\* duration and num_questions.
C10_ExamParametersTable ==
    pc # "idle" =>
        LET mst == request.examType = "MST-1" \/ request.examType = "MST-2"
            expected == IF mst THEN <<2, 3, 4, "1 Hour">> ELSE <<5, 4, 6, "3 Hours">>
        IN /\ num_questions = expected[1]
           /\ marks_ab = expected[2]
           /\ marks_cd = expected[3]
           /\ duration = expected[4]
           /\ (pc = "done" /\ http.status = 200) =>
                  http.examInfo = [duration |-> expected[4], numQuestions |-> expected[1]]

\* C10 witness: a successful request with an unrecognized examType, and one
\* for 'MST-2'.
C10_Witness ==
    /\ pc = "done" /\ http.status = 200
    /\ request.examType = "Quiz"
    /\ http.examInfo.numQuestions = 5 /\ Len(http.questions) = 5

\* C12: a request that ends in an error answers with a status code and a
\* detail only: the body holds no questions, also when the error was raised
\* after questions had been collected.
C12_ErrorCarriesNoQuestions ==
    (pc = "done" /\ http.status # 200) =>
        /\ DOMAIN http = {"status", "detail"}
        /\ http.status \in {401, 429, 500, 504}
        /\ http.detail # <<>>

\* C12 witness: an End-Sem request failed at its second outline entry after
\* the first question had been collected.
C12_Witness ==
    /\ pc = "done" /\ http.status = 500
    /\ Len(all_questions) = 1 /\ q_idx = 2

\* The request failed with the exception the last Phase-1 candidate raised.
FailedWithUpstreamError ==
    /\ pc = "done" /\ Phase1Exhausted
    /\ invoked[Len(invoked)].outcome = "error"

\* C13 as stated: a request that failed with an upstream error whose
\* message contains 'API key' is answered with HTTP status 401.
C13_ApiKeyGives401 ==
    (FailedWithUpstreamError
     /\ \E i \in 1..Len(result.error.msg) : result.error.msg[i] = "API key")
        => http.status = 401

\* C13 amended: a request that failed with an upstream error whose message
\* contains 'API key' and contains neither '429' nor, case-insensitively,
\* 'quota' is answered with HTTP status 401.
C13_ApiKeyWithoutQuotaGives401 ==
    (FailedWithUpstreamError
     /\ \E i \in 1..Len(result.error.msg) : result.error.msg[i] = "API key"
     /\ \A j \in 1..Len(result.error.msg) :
           result.error.msg[j] \notin {"429", "quota", "Quota"})
        => http.status = 401 /\ http.detail = <<"Invalid API key configuration">>

\* C13 witness: the last Phase-1 candidate failed with 'API key' after the
\* first two had failed otherwise.
C13_Witness ==
    /\ FailedWithUpstreamError
    /\ result.error.msg = <<"API key">>
    /\ invoked[1].error.msg = <<"429">>
    /\ http.status = 401

\* The request is in Phase 2 with a generation attempt of entry q_idx pending.
InContentCall == caller = "content" /\ pc \in {"gen", "backoff", "ret", "raise"}

\* C14: for each outline entry the invoker is called between 1 and 3 times;
\* the attempts stop at the first response that parses to an object with a
\* 'parts' key, which is recorded with questionNumber set to the entry's
\* number; the fallback is recorded iff the third attempt failed; exactly
\* one question is appended per entry, in outline order.
C14_RetryLoop ==
    /\ [](/\ retry \in 0..2
          /\ InContentCall => Len(all_questions) = q_idx - 1
          /\ pc = "retry_sleep" =>
                Len(all_questions) = (IF retry = 2 THEN q_idx ELSE q_idx - 1)
          /\ pc = "pace" => Len(all_questions) = q_idx
          /\ (pc = "done" /\ http.status = 200) =>
                Len(all_questions) = Len(outline)
          /\ \A i \in 1..Len(all_questions) :
                all_questions[i].questionNumber = outline[i].obj.questionNumber)
    /\ [][ /\ (pc = "ret" /\ caller = "content") =>
                LET v == result.text.json
                    valid == v.type = "object" /\ "parts" \in DOMAIN v.obj
                IN IF valid
                   THEN /\ pc' # "retry_sleep"
                        /\ Len(all_questions') = Len(all_questions) + 1
                        /\ all_questions'[q_idx].parts = v.obj.parts
                        /\ all_questions'[q_idx].questionNumber = q_num
                   ELSE pc' = "retry_sleep"
           /\ (pc = "raise" /\ caller = "content") => pc' = "retry_sleep"
           /\ pc' = "retry_sleep" =>
                IF retry = 2
                THEN /\ Len(all_questions') = Len(all_questions) + 1
                     /\ all_questions'[q_idx].parts[1].text = <<"Define ">> \o topic
                ELSE all_questions' = all_questions
           /\ pc = "retry_sleep" =>
                \/ retry < 2 /\ retry' = retry + 1 /\ pc' = "gen" /\ q_idx' = q_idx
                \/ retry = 2 /\ pc' # "gen" /\ q_idx' = q_idx
                \/ retry = 2 /\ q_idx' = q_idx + 1
           /\ (pc # "ret" /\ pc' # "retry_sleep" /\ pc # "idle") =>
                all_questions' = all_questions
       ]_vars

\* C14 witness: the first attempt for entry 2 failed, the second was
\* accepted, and entry 1 holds the fallback.
C14_Witness ==
    /\ pc = "pace" /\ q_idx = 2 /\ retry = 1
    /\ Len(all_questions) = 2
    /\ all_questions[1].parts[1].text = <<"Define ", "M">>
    /\ all_questions[2].parts = ModelParts

\* C15: every generation attempt of Phase 2 targets the model that succeeded
\* in Phase 1 and no other; used_model never changes once set; modelUsed of
\* the success response is that model, also when every question is the fallback.
C15_PinnedModel ==
    /\ [](/\ caller = "content" =>
                /\ used_model \in {MODEL_FALLBACK_LIST[i] : i \in 1..Len(MODEL_FALLBACK_LIST)}
                /\ models_to_try = <<used_model>>
                /\ Len(invoked) <= 1
                /\ \A i \in 1..Len(invoked) : invoked[i].model = used_model
          /\ (pc = "done" /\ http.status = 200) => http.modelUsed = used_model)
    /\ [][ /\ used_model # NoModel => used_model' = used_model
           /\ (pc = "ret" /\ caller = "outline") => used_model' = invoked[Len(invoked)].model
       ]_vars

\* C15 witness: the third model answered Phase 1 and both questions of the
\* successful response are the fallback.
C15_Witness ==
    /\ pc = "done" /\ http.status = 200
    /\ http.modelUsed = "gemini-3-flash"
    /\ Len(http.questions) = 2
    /\ \A i \in 1..2 : http.questions[i].parts[1].text = <<"Define ", "M">>

\* C16: the pacing delay follows the processing of an outline entry iff the
\* entry is not the last one of the outline, whatever question numbers the
\* outline carries (so that num_questions - 1 delays occur, none after the
\* final question).
C16_PacingBetweenQuestions ==
    [][ (/\ (pc = "ret" /\ caller = "content") \/ pc = "retry_sleep"
         /\ pc' = "pace" \/ q_idx' = q_idx + 1)
            => (pc' = "pace" <=> q_idx < Len(outline))
      ]_vars

\* C17: after a failed attempt the invoker waits (backoff) iff the attempt
\* timed out or its error message contains, case-insensitively, '429',
\* 'quota', 'rate limit' or 'resource exhausted'; otherwise it proceeds with
\* no wait; in both cases the next candidate is tried if there is one, and
\* the invoker raises if there is none.
C17_BackoffPolicy ==
    [][ /\ (pc = "gen" /\ pc' # "ret") =>
               LET last == invoked'[Len(invoked')]
                   limited ==
                       \E k \in {"429", "quota", "rate limit", "resource exhausted"} :
                           \E i \in 1..Len(last.error.msg) :
                               LowerFragment(last.error.msg[i]) = k
               IN /\ Len(invoked') = Len(invoked) + 1
                  /\ IF last.outcome = "timeout" \/ limited
                     THEN pc' = "backoff" /\ cand' = cand
                     ELSE /\ cand' = cand + 1
                          /\ pc' = IF cand < Len(models_to_try) THEN "gen" ELSE "raise"
        /\ pc = "backoff" =>
               /\ cand' = cand + 1
               /\ pc' = IF cand < Len(models_to_try) THEN "gen" ELSE "raise"
      ]_vars

\* C17 witness: the first candidate failed with 'not found' and the second
\* was tried at once; it timed out and the invoker is waiting.
C17_Witness ==
    /\ pc = "backoff" /\ caller = "outline" /\ cand = 2
    /\ invoked[1].error.msg = <<"not found">>
    /\ invoked[2].outcome = "timeout"

\* The locals of request r of two concurrent requests.
LocalsOf(r) == IF active = r THEN Locals ELSE parked

\* C18: two requests interleaved at their suspension points do not touch
\* each other's state: a step of the running request leaves the locals of
\* the suspended one (outline, pinned model, collected questions and all the
\* rest) as they are, and a resumed request finds its locals exactly as it
\* left them; so each request is answered from its own request, its own
\* outline, its own pinned model and its own questions, as when it runs alone.
C18_RequestIndependence ==
    /\ [](\A r \in {1, 2} :
            LET f == LocalsOf(r) IN
            /\ f.pc # "idle" =>
                  /\ f.request \in PairRequests
                  /\ (f.request.examType = "MST-1") <=> (r = 1)
                  /\ f.num_questions = ExamParameters(f.request.examType).num_questions
                  /\ f.duration = ExamParameters(f.request.examType).duration
            /\ Len(f.all_questions) <= Len(f.outline)
            /\ \A i \in 1..Len(f.all_questions) :
                  /\ f.all_questions[i].questionNumber = f.outline[i].obj.questionNumber
                  /\ f.all_questions[i].parts \in
                        { ModelParts,
                          FallbackQuestion(i, ModelTopic, f.marks_ab, f.marks_cd).parts }
            /\ (f.pc = "done" /\ f.http.status = 200) =>
                  f.http = SuccessResponse(f.all_questions, f.duration,
                                           f.num_questions, f.used_model)
            /\ (f.pc = "done" /\ f.http.status # 200) =>
                  f.http = ErrorResponse(f.result.error))
    /\ [][ IF active' = active
           THEN parked' = parked
           ELSE parked' = Locals /\ Locals' = parked
       ]_vars

\* C18 witness: request 2 runs in Phase 2 with one question collected while
\* request 1 is suspended with two questions and another pinned model.
C18_Witness ==
    /\ active = 2 /\ pc = "gen" /\ caller = "content"
    /\ Len(all_questions) = 1 /\ used_model = "gemini-3-flash"
    /\ parked.pc = "retry_sleep" /\ Len(parked.all_questions) = 2
    /\ parked.used_model # used_model
    /\ parked.all_questions[1] # all_questions[1]

\* C19: every request ends, in exactly one outcome that never changes, after
\* at most len(MODEL_FALLBACK_LIST) generation calls in Phase 1 and at most 3
\* per outline entry in Phase 2: at most 3 + 3 * numQuestions calls in all.
C19_BoundedTermination ==
    /\ <>(pc = "done" /\ parked.pc = "done")
    /\ [](\A r \in {1, 2} :
            LET f == LocalsOf(r) IN
            /\ (f.pc = "done") <=> (f.http # NoResponse)
            /\ f.caller = "outline" =>
                  f.calls = f.attempt /\ f.attempt <= Len(MODEL_FALLBACK_LIST)
            /\ (f.caller = "content" /\ f.pc # "done") =>
                  /\ f.attempt <= 1 /\ f.retry + f.attempt <= 3
                  /\ f.q_idx <= f.num_questions
                  /\ f.calls <= Len(MODEL_FALLBACK_LIST)
                                  + 3 * (f.q_idx - 1) + f.retry + f.attempt
            /\ f.calls <= 3 + 3 * f.num_questions)
    /\ [][ \A r \in {1, 2} :
              LocalsOf(r).http # NoResponse =>
                  /\ LocalsOf(r)'.http = LocalsOf(r).http
                  /\ LocalsOf(r)'.calls = LocalsOf(r).calls
       ]_vars

\* C19 witness: both requests are answered; the running one used the most
\* calls there can be, three in Phase 1 and three for each question, and the
\* other failed when the fallback list was used up.
C19_Witness ==
    /\ pc = "done" /\ parked.pc = "done"
    /\ http.status = 200 /\ calls = 3 + 3 * num_questions
    /\ parked.http.status # 200 /\ parked.calls = Len(MODEL_FALLBACK_LIST)

\* C11: for any JSON value V, clean_and_parse_json applied to the
\* serialization of V in a markdown fence, between leading and trailing
\* prose and with a comma before the final closing bracket, returns V.
C11_SanitizerRoundTrip ==
    san_pc = "returned" => returned = [ok |-> TRUE, value |-> raw_value]

====
